---- MODULE Spec2Model ----
(***************************************************************************)
(* StegOps State Engine (src/scripts/state_engine.py).                     *)
(*                                                                         *)
(* The engine is a short-lived run per tracker event: it normalises the    *)
(* event, takes a per-engagement directory lock, loads leads/issue-N/      *)
(* state.json, computes the next record, and writes state.prev.json,       *)
(* state.json and STATUS.md when the canonical hash changed.               *)
(*                                                                         *)
(* Modelling conventions                                                   *)
(*   - a file is a sequence of length <= 1: <<>> is "no such file",        *)
(*     <<c>> is a file with content c; None is <<>> as well;               *)
(*   - a comment / issue body is the sequence of its word tokens;          *)
(*   - utc_now_iso() reads the integer variable clock (1 s resolution);    *)
(*   - sha256 is collision free: a hash is the canonical form it hashes;   *)
(*   - one write_text call is one atomic step;                             *)
(*   - SeqSpec runs main() one event at a time, as one step per run; Spec  *)
(*     runs one process per invocation of main(), step by step; FairSpec   *)
(*     is Spec for the events of one engagement, fairly scheduled.         *)
(***************************************************************************)
EXTENDS Integers, Sequences, FiniteSets, TLC

(***************************************************************************)
(* Bounds of the model                                                     *)
(***************************************************************************)
MaxClock == 1
PollsPerTimeout == 2

(***************************************************************************)
(* Label constants, state lattice                                          *)
(***************************************************************************)
LABEL_STEGOPS == "stegops"
LABEL_MONTHLY == "monthly"
LABEL_AUDIT == "audit"
LABEL_QUALIFIED == "qualified"
LABEL_SOW == "sow-generated"
LABEL_INVOICE == "invoice-generated"
LABEL_PAYMENT_CLAIMED == "payment-claimed"
LABEL_DELIVERABLES_PUSHED == "deliverables-pushed"
LABEL_VERIFY_PAYMENT == "verify-payment"

STATE_ORDER ==
  << "new", "replied", "qualified", "sow_generated", "accepted",
     "invoice_generated", "payment_claimed", "verify_payment",
     "payment_verified", "deliverables_ready", "deliverables_pushed",
     "closed_no_response", "closed" >>

States == { STATE_ORDER[i] : i \in 1..Len(STATE_ORDER) }

STATE_RANK == [ s \in States |-> (CHOOSE i \in 1..Len(STATE_ORDER) : STATE_ORDER[i] = s) - 1 ]

SCHEMA_VERSION == 1

None == << >>

WORKSPACE_BASE == "https://github.com/StegVerse-Labs/StegOps-Deliverables/tree/main"

(***************************************************************************)
(* Helpers                                                                 *)
(***************************************************************************)
LowerMap ==
  [ t \in {"Yes", "YES", "Verify", "Payment", "Paid", "Accept", "Monthly Ops Support",
           "One-Time AI Ops Audit"} |->
      CASE t = "Yes" -> "yes"
        [] t = "YES" -> "yes"
        [] t = "Verify" -> "verify"
        [] t = "Payment" -> "payment"
        [] t = "Paid" -> "paid"
        [] t = "Accept" -> "accept"
        [] t = "Monthly Ops Support" -> "monthly ops support"
        [] t = "One-Time AI Ops Audit" -> "one-time ai ops audit" ]

lower(t) == IF t \in DOMAIN LowerMap THEN LowerMap[t] ELSE t

UpperMap ==
  [ t \in {"owner", "member", "collaborator", "none"} |->
      CASE t = "owner" -> "OWNER"
        [] t = "member" -> "MEMBER"
        [] t = "collaborator" -> "COLLABORATOR"
        [] t = "none" -> "NONE" ]

upper(t) == IF t \in DOMAIN UpperMap THEN UpperMap[t] ELSE t

\* re.match(r"^words\b", c) on token sequences, after lower()
StartsWith(c, words) ==
  /\ Len(c) >= Len(words)
  /\ \A i \in 1..Len(words) : lower(c[i]) = words[i]

StartsWithAny(c, alts) == \E w \in alts : StartsWith(c, w)

parse_service_from_issue_body(body) ==
  IF \E i \in 1..Len(body) : lower(body[i]) = "monthly ops support" THEN <<"monthly">>
  ELSE IF \E i \in 1..Len(body) : lower(body[i]) = "one-time ai ops audit" THEN <<"audit">>
  ELSE None

parse_comment_intents(body) ==
  [ yes    |-> StartsWithAny(body, { <<"yes">>, <<"y">>, <<"sure">>, <<"ok">>,
                                     <<"let\\u2019s", "do", "it">>, <<"lets", "do", "it">> }),
    accept |-> StartsWithAny(body, { <<"accept">>, <<"accepted">>, <<"i", "accept">> }),
    paid   |-> StartsWithAny(body, { <<"paid">>, <<"payment", "sent">>, <<"sent", "payment">> }),
    verify |-> StartsWith(body, <<"verify", "payment">>) ]

choose_amount_default(service) ==
  IF service = "monthly" THEN "$99 / month" ELSE "$2,500 USD"

is_authorized_assoc(a) ==
  /\ a # None
  /\ upper(a[1]) \in {"OWNER", "MEMBER", "COLLABORATOR"}

\* mutant: an unknown state ranks above every known one
state_rank_unknown_on_top(s) == IF s \in DOMAIN STATE_RANK THEN STATE_RANK[s] ELSE Len(STATE_ORDER)

\* STATE_RANK.get(s, 0)
state_rank(s) == IF s \in DOMAIN STATE_RANK THEN STATE_RANK[s] ELSE 0

max_state(a, b) == IF state_rank(a) >= state_rank(b) THEN a ELSE b

canonical_hash(obj) == << "sha256", obj >>

(***************************************************************************)
(* compute_state(ctx, prev): prev is None ({} in the source: no file, or   *)
(* an unparsable one) or <<record>>; now is the reading of utc_now_iso().  *)
(***************************************************************************)
HasLabel(ctx, l) == l \in ctx.labels

HasComment(ctx) == ctx.comment # None

\* yes = accept = paid = verify_intent = False; if ctx.comment: ... = parse_comment_intents
Intents(ctx) ==
  IF HasComment(ctx) THEN parse_comment_intents(ctx.comment)
  ELSE [ yes |-> FALSE, accept |-> FALSE, paid |-> FALSE, verify |-> FALSE ]

prev_state_of(prev) == IF prev # None THEN prev[1].state ELSE "new"

\* mutant: the body is consulted before the stored service
resolve_service_body_first(ctx, prev) ==
  LET inferred == parse_service_from_issue_body(ctx.body)
      base == IF inferred # None THEN inferred[1]
              ELSE IF prev # None THEN prev[1].service
              ELSE "audit"
      s1 == IF HasLabel(ctx, LABEL_MONTHLY) THEN "monthly" ELSE base
  IN  IF HasLabel(ctx, LABEL_AUDIT) THEN "audit" ELSE s1

\* service = prev.get("service") or parse_service_from_issue_body(ctx.body) or "audit",
\* then the monthly label, then the audit label
resolve_service(ctx, prev) ==
  LET inferred == parse_service_from_issue_body(ctx.body)
      base == IF prev # None THEN prev[1].service
              ELSE IF inferred # None THEN inferred[1]
              ELSE "audit"
      s1 == IF HasLabel(ctx, LABEL_MONTHLY) THEN "monthly" ELSE base
  IN  IF HasLabel(ctx, LABEL_AUDIT) THEN "audit" ELSE s1

\* mutant: the commenter's association is not looked at
verify_authorized_any_commenter(verify_intent, assoc, labels) ==
  /\ verify_intent
  /\ LABEL_VERIFY_PAYMENT \in labels

\* mutant: the verify-payment label is not looked at
verify_authorized_without_label(verify_intent, assoc, labels) ==
  /\ verify_intent
  /\ is_authorized_assoc(assoc)

\* mutant: only the repository owner may verify
verify_authorized_owner_only(verify_intent, assoc, labels) ==
  /\ verify_intent
  /\ assoc = <<"OWNER">>
  /\ LABEL_VERIFY_PAYMENT \in labels

\* verify_authorized = verify_intent and is_authorized_assoc(assoc) and label
verify_authorized(verify_intent, assoc, labels) ==
  /\ verify_intent
  /\ is_authorized_assoc(assoc)
  /\ LABEL_VERIFY_PAYMENT \in labels

\* the conditions compute_state tests, each evaluated once per run
facts(ctx) ==
  LET it == Intents(ctx) IN
  [ comment   |-> HasComment(ctx),
    yes       |-> it.yes,
    accept    |-> it.accept,
    paid      |-> it.paid,
    verify    |-> it.verify,
    qualified |-> HasLabel(ctx, LABEL_QUALIFIED) \/ it.yes,
    claimed   |-> it.paid \/ HasLabel(ctx, LABEL_PAYMENT_CLAIMED),
    verified  |-> verify_authorized(it.verify, ctx.assoc, ctx.labels),
    sow       |-> HasLabel(ctx, LABEL_SOW),
    invoice   |-> HasLabel(ctx, LABEL_INVOICE),
    pushed    |-> HasLabel(ctx, LABEL_DELIVERABLES_PUSHED),
    monthly   |-> HasLabel(ctx, LABEL_MONTHLY),
    audit     |-> HasLabel(ctx, LABEL_AUDIT),
    closed    |-> lower(ctx.state) = "closed" ]

\* mutant: a rule applies only while nothing has been observed yet
fold_first_wins(observed, cond, target) ==
  IF cond /\ observed = "new" THEN target ELSE observed

\* if cond: observed = max_state(observed, target)
fold(observed, cond, target) == IF cond THEN max_state(observed, target) ELSE observed

\* mutant: a payment claim folds payment_claimed only
observed_open_claim_only(f) ==
  fold(fold(fold(fold(fold(fold(fold(fold(fold("new",
    f.comment, "replied"),
    f.qualified, "qualified"),
    f.sow, "sow_generated"),
    f.accept, "accepted"),
    f.invoice, "invoice_generated"),
    f.claimed, "payment_claimed"),
    f.verified, "payment_verified"),
    f.verified, "deliverables_ready"),
    f.pushed, "deliverables_pushed")

\* the fold of the open-state rules, in source order
observed_open(f) ==
  fold(fold(fold(fold(fold(fold(fold(fold(fold(fold("new",
    f.comment, "replied"),
    f.qualified, "qualified"),
    f.sow, "sow_generated"),
    f.accept, "accepted"),
    f.invoice, "invoice_generated"),
    f.claimed, "payment_claimed"),
    f.claimed, "verify_payment"),
    f.verified, "payment_verified"),
    f.verified, "deliverables_ready"),
    f.pushed, "deliverables_pushed")

\* mutant: the close rule looks at the previous state only
close_is_early_prev_only(prev_state, observed) ==
  state_rank(prev_state) <= state_rank("qualified")

\* mutant: the close rule looks at what this event observed only
close_is_early_observed_only(prev_state, observed) ==
  state_rank(observed) <= state_rank("qualified")

\* prev_rank <= STATE_RANK["qualified"] and STATE_RANK[observed] <= STATE_RANK["qualified"]
close_is_early(prev_state, observed) ==
  /\ state_rank(prev_state) <= state_rank("qualified")
  /\ state_rank(observed) <= state_rank("qualified")

close_target(prev_state, observed) ==
  IF close_is_early(prev_state, observed) THEN "closed_no_response" ELSE "closed"

observed_state(f, prev_state) ==
  LET o == observed_open(f)
  IN  IF f.closed THEN max_state(o, close_target(prev_state, o)) ELSE o

\* mutant: a reopen rule, an open event that observes something leaves the closing states
final_state_reopens(prev_state, observed) ==
  IF prev_state \in {"closed", "closed_no_response"}
     /\ observed \notin {"new", "closed", "closed_no_response"}
  THEN observed
  ELSE max_state(prev_state, observed)

\* mutant: a record that has left new keeps its state
final_state_first_wins(prev_state, observed) ==
  IF prev_state # "new" THEN prev_state ELSE observed

\* mutant: an event that observes nothing takes the record back to new
final_state_resets_on_new(prev_state, observed) ==
  IF observed = "new" THEN "new" ELSE max_state(prev_state, observed)

\* mutant: the observed state is stored without the fold with the previous one
final_state_overwrite(prev_state, observed) == observed

final_state(prev_state, observed) == max_state(prev_state, observed)

reasons_of(f, prev_state) ==
  (IF f.monthly THEN {"service_labeled_monthly"} ELSE {})
  \cup (IF f.audit THEN {"service_labeled_audit"} ELSE {})
  \cup (IF f.comment THEN {"comment_detected", "observed_replied"} ELSE {})
  \cup (IF f.qualified THEN {"observed_qualified"} ELSE {})
  \cup (IF f.sow THEN {"observed_sow_generated"} ELSE {})
  \cup (IF f.accept THEN {"observed_accepted"} ELSE {})
  \cup (IF f.invoice THEN {"observed_invoice_generated"} ELSE {})
  \cup (IF f.claimed THEN {"observed_payment_claimed"} ELSE {})
  \cup (IF f.verified THEN {"observed_payment_verified_two_factor"} ELSE {})
  \cup (IF f.pushed THEN {"observed_deliverables_pushed"} ELSE {})
  \cup (IF f.closed THEN {"observed_" \o close_target(prev_state, observed_open(f))} ELSE {})

\* mutant: mark("qualified", ...) is left out
MarkedNow_without_qualified(f) ==
  (IF f.accept THEN {"accepted"} ELSE {})
  \cup (IF f.invoice THEN {"invoice_generated"} ELSE {})
  \cup (IF f.claimed THEN {"payment_claimed"} ELSE {})
  \cup (IF f.verified THEN {"payment_verified"} ELSE {})
  \cup (IF f.pushed THEN {"deliverables_pushed"} ELSE {})

\* the milestones mark() is called for, with their conditions
MarkedNow(f) ==
  (IF f.qualified THEN {"qualified"} ELSE {})
  \cup (IF f.accept THEN {"accepted"} ELSE {})
  \cup (IF f.invoice THEN {"invoice_generated"} ELSE {})
  \cup (IF f.claimed THEN {"payment_claimed"} ELSE {})
  \cup (IF f.verified THEN {"payment_verified"} ELSE {})
  \cup (IF f.pushed THEN {"deliverables_pushed"} ELSE {})

\* mutant: the mapping is rebuilt from the marks of this run alone
mark_fresh(ts, keys, now) == [ k \in keys |-> now ]

\* mutant: mark() without the 'k not in ts' test
mark_overwrite(ts, keys, now) ==
  [ k \in (DOMAIN ts) \cup keys |-> IF k \in keys THEN now ELSE ts[k] ]

\* mark(k, cond): if cond and k not in ts: ts[k] = now
mark(ts, keys, now) ==
  [ k \in (DOMAIN ts) \cup keys |-> IF k \in DOMAIN ts THEN ts[k] ELSE now ]

EmptyTs == [ k \in {} |-> 0 ]

timestamps_of(f, prev, now) ==
  mark(IF prev # None THEN prev[1].timestamps ELSE EmptyTs, MarkedNow(f), now)

workspace_url(number) == << WORKSPACE_BASE, "clients", "issue-", number >>

\* mutant: the link is dropped once the deliverables are pushed
workspace_only_when_ready(st, number) ==
  IF st = "deliverables_ready" THEN workspace_url(number) ELSE None

private_workspace_of(st, number) ==
  IF st \in {"deliverables_ready", "deliverables_pushed"} THEN workspace_url(number) ELSE None

compute_state(ctx, prev, now) ==
  LET f == facts(ctx)
      prev_state == prev_state_of(prev)
      service == resolve_service(ctx, prev)
      st == final_state(prev_state, observed_state(f, prev_state))
  IN  [ schema_version    |-> SCHEMA_VERSION,
        issue             |-> ctx.number,
        customer          |-> ctx.author,
        issue_url         |-> ctx.url,
        issue_title       |-> ctx.title,
        service           |-> service,
        labels            |-> ctx.labels,
        updated_utc       |-> now,
        timestamps        |-> timestamps_of(f, prev, now),
        state             |-> st,
        pricing_defaults  |-> [ suggested_amount |-> choose_amount_default(service) ],
        private_workspace |-> private_workspace_of(st, ctx.number),
        reasons           |-> reasons_of(f, prev_state) ]

\* ts = out.setdefault("timestamps", {}) on the shallow copy dict(prev): the
\* nested mappings of prev are the ones compute_state writes into, so the
\* prev that main hashes afterwards carries the new timestamps and amount
prev_after_compute(prev, out) ==
  IF prev = None THEN None
  ELSE << [ prev[1] EXCEPT !.timestamps = out.timestamps,
                           !.pricing_defaults = out.pricing_defaults ] >>

hashes_equal(prev, nxt) ==
  LET prev_hash == IF prev # None THEN canonical_hash(prev[1]) ELSE None
      nxt_hash == canonical_hash(nxt)
  IN  prev_hash = nxt_hash

render_status(s) ==
  [ issue     |-> s.issue,
    title     |-> s.issue_title,
    customer  |-> s.customer,
    state     |-> s.state,
    service   |-> IF s.service = "monthly" THEN "Monthly Ops Support" ELSE "One-time AI Ops Audit",
    amount    |-> s.pricing_defaults.suggested_amount,
    workspace |-> s.private_workspace,
    reasons   |-> s.reasons,
    updated   |-> s.updated_utc ]

(***************************************************************************)
(* Event payloads and extract_ctx                                          *)
(***************************************************************************)
\* a raw payload: absent JSON members are None, present ones <<value>>
RawEvent(number, labels, comment, state, login, body) ==
  [ number |-> number, labels |-> labels, comment |-> comment,
    state |-> state, login |-> login, title |-> "Lead", body |-> body,
    html_url |-> "https://github.com/o/r/issues/n" ]

Comment(tokens, assoc) == << [ body |-> tokens, author_association |-> assoc ] >>

norm_labels(labels) == { l \in labels : l # "" }

extract_ctx(event) ==
  [ number  |-> IF event.number = None THEN 0 ELSE event.number[1],
    author  |-> IF event.login = None THEN "unknown" ELSE event.login[1],
    title   |-> event.title,
    url     |-> event.html_url,
    state   |-> IF event.state = None THEN "open" ELSE event.state[1],
    labels  |-> norm_labels(event.labels),
    body    |-> event.body,
    comment |-> IF event.comment = None THEN None ELSE event.comment[1].body,
    assoc   |-> IF event.comment = None THEN None ELSE event.comment[1].author_association ]

\* mutant: the guard tests the label only
in_scope_label_only(ctx) == LABEL_STEGOPS \in ctx.labels

\* if LABEL_STEGOPS not in ctx.labels or ctx.number <= 0: return
in_scope(ctx) == ~ (LABEL_STEGOPS \notin ctx.labels \/ ctx.number <= 0)

(***************************************************************************)
(* State: the files of each engagement, the clock, the runs                *)
(***************************************************************************)
VARIABLES
  state_json,   \* [Ids -> file]   leads/issue-N/state.json
  prev_json,    \* [Ids -> file]   leads/issue-N/state.prev.json
  status_md,    \* [Ids -> file]   leads/issue-N/STATUS.md
  lock,         \* [Ids -> file]   leads/issue-N/.lock (the marker directory)
  clock,        \* last reading of the wall clock, in seconds
  runs,         \* number of runs started so far
  pc,           \* [Procs -> position of the run in main()]
  ev,           \* [Procs -> <<ctx>> of the run, or None]
  prv,          \* [Procs -> prev as loaded by the run]
  nxt,          \* [Procs -> <<nxt>> computed by the run, or None]
  polls,        \* [Procs -> sleeps done inside acquire()]
  ret,          \* [Procs -> how the last run of the process ended / is ending]
  last,         \* the last run of the sequential engine: <<[ctx, prev, nxt, ret, repeat]>>
  validation    \* the workflow job under way: <<[event, done, exit]>> of its validator step

vars == << state_json, prev_json, status_md, lock, clock, runs,
           pc, ev, prv, nxt, polls, ret, last, validation >>

files == << state_json, prev_json, status_md >>

locals == << pc, ev, prv, nxt, polls, ret >>

MaxRuns == 2

Ids == {1, 2}
\* one process per invocation of main()
Procs == 1..MaxRuns

\* utc_now_iso(): the wall clock does not run backwards
Now == clock..MaxClock

Init ==
  /\ state_json = [ i \in Ids |-> None ]
  /\ prev_json = [ i \in Ids |-> None ]
  /\ status_md = [ i \in Ids |-> None ]
  /\ lock = [ i \in Ids |-> None ]
  /\ clock = 0
  /\ runs = 0
  /\ pc = [ p \in Procs |-> "idle" ]
  /\ ev = [ p \in Procs |-> None ]
  /\ prv = [ p \in Procs |-> None ]
  /\ nxt = [ p \in Procs |-> None ]
  /\ polls = [ p \in Procs |-> 0 ]
  /\ ret = [ p \in Procs |-> "none" ]
  /\ last = None
  /\ validation = None

\* contents of state.json that the engine did not write
NotUtf8 == [ raw |-> "bytes ff fe" ]
NotJson == [ raw |-> "{not json" ]
JsonArray == [ raw |-> "[]" ]
EmptyObject == [ raw |-> "{}" ]

\* path.read_text(encoding="utf-8") returns
decodes(content) == content # NotUtf8

\* json.loads(text) returns
parses(content) == decodes(content) /\ content # NotJson

\* {} (None here) if the file is missing or read_text / json.loads raises,
\* else whatever json.loads returns
safe_read_json(file) ==
  IF file = None THEN None
  ELSE IF ~ parses(file[1]) THEN None
  ELSE IF file[1] = EmptyObject THEN None
  ELSE file

\* a record the engine wrote
is_record(file) == IF file = None THEN FALSE ELSE "state" \in DOMAIN file[1]

\* prev.get(...) at line 180 needs a mapping: anything else raises AttributeError
is_dict(prev) == IF prev = None THEN TRUE ELSE "state" \in DOMAIN prev[1]

\* state_path.read_text(encoding="utf-8") at line 348 raises UnicodeDecodeError
snapshot_raises(file) == IF file = None THEN FALSE ELSE ~ decodes(file[1])

\* the record main() compares and writes for ctx, given the file it loads
loaded(i) == safe_read_json(state_json[i])

must_write(prev, out) == ~ hashes_equal(prev_after_compute(prev, out), out)

\* mutant: the copy to state.prev.json is left out
snapshot_skipped(i) == prev_json[i]

\* state.prev.json after the snapshot step
snapshot_of(i) == IF state_json[i] # None THEN state_json[i] ELSE prev_json[i]

(***************************************************************************)
(* The events offered to the engine                                        *)
(***************************************************************************)
Owner == <<"OWNER">>
Outsider == <<"NONE">>

SeqLabelSets ==
  { {LABEL_STEGOPS} \cup S : S \in
      { {}, {LABEL_QUALIFIED}, {LABEL_PAYMENT_CLAIMED}, {LABEL_VERIFY_PAYMENT},
        {LABEL_DELIVERABLES_PUSHED}, {LABEL_VERIFY_PAYMENT, LABEL_DELIVERABLES_PUSHED} } }

SeqComments ==
  { None,
    Comment(<<"Yes", "lets", "proceed">>, Outsider),
    Comment(<<"accept">>, Outsider),
    Comment(<<"verify", "payment">>, Owner),
    Comment(<<"Verify", "Payment">>, Outsider) }

OpenEvents ==
  { RawEvent(<<1>>, ls, c, None, <<"alice">>, <<>>) : ls \in SeqLabelSets, c \in SeqComments }
  \cup { RawEvent(<<1>>, {LABEL_STEGOPS} \cup S, None, <<"open">>, <<"alice">>, <<>>) :
           S \in { {LABEL_SOW}, {LABEL_INVOICE} } }
  \cup { RawEvent(<<1>>, {LABEL_STEGOPS, LABEL_VERIFY_PAYMENT},
                  Comment(<<"please", "verify", "payment">>, <<"member">>), None, <<"alice">>, <<>>),
         RawEvent(<<2>>, {LABEL_STEGOPS, LABEL_VERIFY_PAYMENT},
                  Comment(<<"verify", "payment">>, <<"collaborator">>), None, <<"bob">>, <<>>) }

ClosedEvents ==
  { RawEvent(<<1>>, {LABEL_STEGOPS} \cup S, c, <<"closed">>, <<"alice">>, <<>>) :
      S \in { {}, {LABEL_PAYMENT_CLAIMED} },
      c \in { None, Comment(<<"Verify", "Payment">>, Outsider) } }

OutOfScopeEvents ==
  { RawEvent(<<1>>, {LABEL_QUALIFIED}, None, None, <<"alice">>, <<>>),
    RawEvent(None, {LABEL_STEGOPS}, None, None, <<"alice">>, <<>>) }

SeqEvents == OpenEvents \cup ClosedEvents \cup OutOfScopeEvents

(***************************************************************************)
(* main(), one run at a time: the whole handler as one step                *)
(***************************************************************************)
\* the run before this one was for the very same event
repeats(ctx) == last # None /\ last[1].ctx = ctx

Main(event) ==
  LET ctx == extract_ctx(event) IN
  /\ runs < MaxRuns
  /\ runs' = runs + 1
  /\ UNCHANGED << lock, locals >>
  /\ IF ~ in_scope(ctx)
     THEN /\ last' = << [ ctx |-> ctx, prev |-> None, nxt |-> None, ret |-> "noop",
                          repeat |-> repeats(ctx) ] >>
          /\ UNCHANGED << files, clock >>
     ELSE LET i == ctx.number IN
          /\ lock[i] = None
          /\ \E now \in Now :
               LET prev == loaded(i)
                   out == compute_state(ctx, prev, now)
               IN  /\ clock' = now
                   /\ IF ~ is_dict(prev)
                      THEN /\ UNCHANGED files
                           /\ last' = << [ ctx |-> ctx, prev |-> prev, nxt |-> None,
                                           ret |-> "raised", repeat |-> repeats(ctx) ] >>
                      ELSE IF ~ must_write(prev, out)
                      THEN /\ UNCHANGED files
                           /\ last' = << [ ctx |-> ctx, prev |-> prev, nxt |-> << out >>,
                                           ret |-> "same_hash", repeat |-> repeats(ctx) ] >>
                      ELSE IF snapshot_raises(state_json[i])
                      THEN /\ UNCHANGED files
                           /\ last' = << [ ctx |-> ctx, prev |-> prev, nxt |-> << out >>,
                                           ret |-> "raised", repeat |-> repeats(ctx) ] >>
                      ELSE /\ prev_json' = [ prev_json EXCEPT ![i] = snapshot_of(i) ]
                           /\ state_json' = [ state_json EXCEPT ![i] = << out >> ]
                           /\ status_md' = [ status_md EXCEPT ![i] = << render_status(out) >> ]
                           /\ last' = << [ ctx |-> ctx, prev |-> prev, nxt |-> << out >>,
                                           ret |-> "written", repeat |-> repeats(ctx) ] >>

SeqNext == \E event \in SeqEvents : Main(event) /\ UNCHANGED validation

SeqSpec == Init /\ [][SeqNext]_vars

(***************************************************************************)
(* main(), one run on a stored record: the stored record is what one       *)
(* earlier run left, or a file the engine did not write                    *)
(***************************************************************************)
Hello == Comment(<<"hello", "there">>, Outsider)

SeedEvents ==
  { RawEvent(<<1>>, {LABEL_STEGOPS} \cup S, None, None, <<"alice">>, <<>>) :
      S \in { {}, {LABEL_QUALIFIED}, {LABEL_SOW}, {LABEL_INVOICE}, {LABEL_PAYMENT_CLAIMED},
              {LABEL_DELIVERABLES_PUSHED} } }
  \cup { RawEvent(<<1>>, {LABEL_STEGOPS, LABEL_MONTHLY}, Hello, None, <<"alice">>, <<>>),
         RawEvent(<<1>>, {LABEL_STEGOPS}, Comment(<<"accept">>, Outsider), None, <<"alice">>, <<>>),
         RawEvent(<<1>>, {LABEL_STEGOPS, LABEL_VERIFY_PAYMENT},
                  Comment(<<"verify", "payment">>, Owner), None, <<"alice">>, <<>>),
         RawEvent(<<1>>, {LABEL_STEGOPS}, None, <<"closed">>, <<"alice">>, <<>>),
         RawEvent(<<1>>, {LABEL_STEGOPS}, Comment(<<"accept">>, Outsider), <<"closed">>,
                  <<"alice">>, <<>>) }

\* a record whose state is a string outside STATE_ORDER
UnknownStateRecord ==
  [ compute_state(extract_ctx(RawEvent(<<1>>, {LABEL_STEGOPS}, None, None, <<"alice">>, <<>>)),
                  None, 0) EXCEPT !.state = "archived" ]

\* state.json before the run
StoredFiles ==
  { None, << NotUtf8 >>, << NotJson >>, << JsonArray >>, << EmptyObject >>,
    << UnknownStateRecord >> }
  \cup { << compute_state(extract_ctx(e), None, 0) >> : e \in SeedEvents }

UnitLabelSets ==
  { {LABEL_STEGOPS} \cup S : S \in
      { {}, {LABEL_VERIFY_PAYMENT}, {LABEL_MONTHLY}, {LABEL_AUDIT}, {LABEL_MONTHLY, LABEL_AUDIT},
        {LABEL_QUALIFIED}, {LABEL_SOW}, {LABEL_INVOICE}, {LABEL_PAYMENT_CLAIMED},
        {LABEL_DELIVERABLES_PUSHED} } }

UnitComments ==
  { None, Hello,
    Comment(<<"Yes", "please">>, Outsider),
    Comment(<<"accept">>, Outsider),
    Comment(<<"Paid">>, Outsider),
    Comment(<<"verify", "payment">>, Owner),
    Comment(<<"verify", "payment">>, <<"member">>),
    Comment(<<"Verify", "Payment", "done">>, <<"COLLABORATOR">>),
    Comment(<<"verify", "payment">>, Outsider),
    Comment(<<"verify", "payment">>, None) }

UnitEvents ==
  { RawEvent(<<1>>, ls, c, st, <<"alice">>, <<>>) :
      ls \in UnitLabelSets, c \in UnitComments, st \in { None, <<"closed">> } }
  \cup { RawEvent(<<1>>, {LABEL_STEGOPS}, None, None, lg, <<>>) : lg \in { <<"bob">>, None } }
  \cup { RawEvent(<<1>>, ls, None, None, <<"alice">>, b) :
           ls \in { {LABEL_STEGOPS}, {LABEL_STEGOPS, LABEL_AUDIT}, {LABEL_STEGOPS, LABEL_MONTHLY} },
           b \in { <<"we", "want", "Monthly Ops Support">>, <<"One-Time AI Ops Audit">> } }
  \cup { RawEvent(n, {LABEL_STEGOPS}, Hello, None, <<"alice">>, <<>>) :
           n \in { None, <<0>>, <<-1>> } }
  \cup { RawEvent(<<1>>, {LABEL_QUALIFIED}, Hello, None, <<"alice">>, <<>>) }

UnitInit ==
  /\ \E f \in StoredFiles :
       /\ state_json = [ i \in Ids |-> IF i = 1 THEN f ELSE None ]
       /\ status_md = [ i \in Ids |->
                          IF i = 1 /\ is_record(f) THEN << render_status(f[1]) >> ELSE None ]
  /\ prev_json = [ i \in Ids |-> None ]
  /\ lock = [ i \in Ids |-> None ]
  /\ clock = 0
  /\ runs = 0
  /\ pc = [ p \in Procs |-> "idle" ]
  /\ ev = [ p \in Procs |-> None ]
  /\ prv = [ p \in Procs |-> None ]
  /\ nxt = [ p \in Procs |-> None ]
  /\ polls = [ p \in Procs |-> 0 ]
  /\ ret = [ p \in Procs |-> "none" ]
  /\ last = None
  /\ validation = None

UnitNext == \E event \in UnitEvents : runs = 0 /\ Main(event) /\ UNCHANGED validation

UnitSpec == UnitInit /\ [][UnitNext]_vars

(***************************************************************************)
(* validate_state_outputs.py: the validator step of the workflow job, run  *)
(* after the engine step on the same event payload                         *)
(***************************************************************************)
REQUIRED_KEYS ==
  { "schema_version", "issue", "customer", "state", "updated_utc", "service", "labels",
    "reasons" }

ALLOWED_SERVICES == { "monthly", "audit" }

\* None where the text does not decode or is not JSON, else what json.loads returns
load_json(file) == IF parses(file[1]) THEN file ELSE None

\* None where the validator calls fail(): no issue.number, or a falsy one
get_issue_number_from_event(event) ==
  IF event.number = None THEN None
  ELSE IF event.number[1] = 0 THEN None
  ELSE event.number

\* leads/issue-N exists: it holds a file or the lock marker
dir_exists(n) ==
  IF n \in Ids
  THEN state_json[n] # None \/ prev_json[n] # None \/ status_md[n] # None \/ lock[n] # None
  ELSE FALSE

\* git status --porcelain: the engagements whose files the engine step changed
git_changed_files == IF last = None THEN {}
                     ELSE IF last[1].ret = "written" THEN { last[1].ctx.number } ELSE {}

validate_only_allowed_paths(issue_num) == git_changed_files \subseteq { issue_num }

\* the event URLs of the model stand for URLs of GitHub issues
ISSUE_URL_RE(u) == u = "https://github.com/o/r/issues/n"

WORKSPACE_RE(pw) ==
  IF pw = None THEN FALSE
  ELSE pw[1] = WORKSPACE_BASE /\ pw[2] = "clients" /\ pw[3] = "issue-" /\ pw[4] >= 0

\* the checks validate_state_json makes on a mapping, none of them failing
state_json_checks(data, issue_num) ==
  /\ REQUIRED_KEYS \subseteq DOMAIN data
  /\ data.schema_version = 1
  /\ data.issue = issue_num
  /\ data.state \in DOMAIN STATE_RANK
  /\ data.service \in ALLOWED_SERVICES
  /\ data.updated_utc \in Nat
  /\ ISSUE_URL_RE(data.issue_url)
  /\ IF data.state \in {"deliverables_ready", "deliverables_pushed"}
     THEN WORKSPACE_RE(data.private_workspace)
     ELSE data.private_workspace = None
  /\ data.state \in {"payment_verified", "deliverables_ready", "deliverables_pushed"}
       => LABEL_VERIFY_PAYMENT \in data.labels

\* TRUE where validate_state_json returns data
validate_state_json(n, issue_num) ==
  IF state_json[n] = None THEN FALSE
  ELSE IF load_json(state_json[n]) = None THEN FALSE
  ELSE IF ~ is_record(state_json[n]) THEN FALSE
  ELSE state_json_checks(state_json[n][1], issue_num)

\* TRUE where validate_status_md returns
validate_status_md(n, issue_num, state) ==
  IF status_md[n] = None THEN FALSE
  ELSE status_md[n][1].issue = issue_num /\ status_md[n][1].state = state

\* TRUE where validate_no_regression returns; prev.get on a list raises
validate_no_regression(n, current) ==
  IF prev_json[n] = None THEN TRUE
  ELSE IF load_json(prev_json[n]) = None THEN FALSE
  ELSE IF ~ is_record(prev_json[n]) THEN prev_json[n][1] = EmptyObject
  ELSE LET prev_state == prev_json[n][1].state
           cur_state == current.state
       IN  ~ (prev_state \in DOMAIN STATE_RANK /\ cur_state \in DOMAIN STATE_RANK
              /\ STATE_RANK[cur_state] < STATE_RANK[prev_state])

\* the exit code of validate_state_outputs.main() for the event
validator_main(event) ==
  LET num == get_issue_number_from_event(event) IN
  IF num = None THEN 1
  ELSE LET issue_num == num[1] IN
       IF ~ validate_only_allowed_paths(issue_num) THEN 1
       ELSE IF ~ dir_exists(issue_num) THEN 0
       ELSE IF ~ validate_state_json(issue_num, issue_num) THEN 1
       ELSE IF ~ validate_status_md(issue_num, issue_num, state_json[issue_num][1].state) THEN 1
       ELSE IF ~ validate_no_regression(issue_num, state_json[issue_num][1]) THEN 1
       ELSE 0

\* the engine step of one workflow job
EngineStep(event) ==
  /\ validation = None
  /\ Main(event)
  /\ validation' = << [ event |-> event, done |-> FALSE, exit |-> 0 ] >>

\* the validator step of that job
ValidatorStep ==
  /\ validation # None
  /\ ~ validation[1].done
  /\ validation' = << [ validation[1] EXCEPT !.done = TRUE,
                                             !.exit = validator_main(validation[1].event) ] >>
  /\ UNCHANGED << files, lock, clock, runs, locals, last >>

JobNext == (\E event \in UnitEvents : EngineStep(event)) \/ ValidatorStep

\* one job on a stored record
JobSpec == UnitInit /\ [][JobNext]_vars

(***************************************************************************)
(* main(), step by step, for concurrent runs                               *)
(***************************************************************************)
RaceEvents ==
  { RawEvent(<<1>>, {LABEL_STEGOPS, LABEL_QUALIFIED}, None, None, <<"alice">>, <<>>),
    RawEvent(<<1>>, {LABEL_STEGOPS, LABEL_VERIFY_PAYMENT},
             Comment(<<"verify", "payment">>, Owner), None, <<"alice">>, <<>>),
    RawEvent(<<2>>, {LABEL_STEGOPS}, Comment(<<"paid">>, Outsider), None, <<"bob">>, <<>>),
    RawEvent(<<1>>, {LABEL_QUALIFIED}, None, None, <<"alice">>, <<>>),
    RawEvent(None, {LABEL_STEGOPS}, None, None, <<"alice">>, <<>>) }

\* mutant: one directory for every engagement, that of the lowest id
IdOf_shared_directory(p) == CHOOSE i \in Ids : \A j \in Ids : i <= j

\* base = Path("leads") / f"issue-{ctx.number}"
IdOf(p) == ev[p][1].number

\* positions between a successful acquire() and release()
Section == {"load", "snapshot", "write_state", "write_status", "release"}

\* while time.time() < end: every failed attempt sleeps one poll interval
deadline_passed(n) == n >= PollsPerTimeout

\* mutant: mkdir(exist_ok=True)
mkdir_exist_ok(marker) == TRUE

\* mutant: the marker is made without the test for an existing one
mkdir_untested(marker) == TRUE

\* mutant: a marker that holds no lock.json is taken over
mkdir_over_bare_marker(marker) == IF marker = None THEN TRUE ELSE ~ marker[1].has_json

\* self.d.mkdir(parents=True, exist_ok=False) succeeds iff the marker is absent
mkdir_succeeds(marker) == marker = None

\* lock.json; owner is the run that made the marker (not in the file)
lock_json(now, p) == << [ has_json |-> TRUE, utc |-> now, owner |-> p ] >>

bare_marker(p) == << [ has_json |-> FALSE, utc |-> 0, owner |-> p ] >>

\* mutant: release() leaves the marker in place
not_released(marker) == marker

\* shutil.rmtree(self.d, ignore_errors=True) if the marker exists
released(marker) == None

\* mutant: a poll interval of 0, the deadline never comes closer
sleep_zero(n) == n

\* time.sleep(self.poll / 1000): one more poll interval has gone by
after_sleep(n) == n + 1

\* mutant: the result of acquire() is ignored
skip_ignored == "load"

\* mutant: acquire() inside the try block, so that finally releases a lock not taken
skip_in_finally == "release"

\* if not lock.acquire(): return
skip_target == "idle"

\* main 316-331: read the event, the no-op guard, build the lock
Start(p, event) ==
  LET ctx == extract_ctx(event) IN
  /\ pc[p] = "idle"
  /\ runs = p - 1
  /\ runs' = runs + 1
  /\ ev' = [ ev EXCEPT ![p] = << ctx >> ]
  /\ prv' = [ prv EXCEPT ![p] = None ]
  /\ nxt' = [ nxt EXCEPT ![p] = None ]
  /\ polls' = [ polls EXCEPT ![p] = 0 ]
  /\ IF in_scope(ctx)
     THEN /\ pc' = [ pc EXCEPT ![p] = "acquire" ]
          /\ ret' = [ ret EXCEPT ![p] = "running" ]
     ELSE /\ pc' = pc
          /\ ret' = [ ret EXCEPT ![p] = "noop" ]
  /\ UNCHANGED << files, lock, clock, last, validation >>

\* acquire 128-131: the mkdir succeeds, lock.json is written, acquire returns True;
\* lock.json holds the last reading of the clock, and no run reads it
Acquire(p) ==
  /\ pc[p] = "acquire"
  /\ ~ deadline_passed(polls[p])
  /\ mkdir_succeeds(lock[IdOf(p)])
  /\ lock' = [ lock EXCEPT ![IdOf(p)] = lock_json(clock, p) ]
  /\ pc' = [ pc EXCEPT ![p] = "load" ]
  /\ UNCHANGED << files, clock, runs, ev, prv, nxt, polls, ret, last, validation >>

\* acquire 129-130: the mkdir succeeds and writing lock.json raises (an OSError
\* is not a FileExistsError): the exception leaves acquire and main
AcquireRaises(p) ==
  /\ pc[p] = "acquire"
  /\ ~ deadline_passed(polls[p])
  /\ mkdir_succeeds(lock[IdOf(p)])
  /\ lock' = [ lock EXCEPT ![IdOf(p)] = bare_marker(p) ]
  /\ pc' = [ pc EXCEPT ![p] = "idle" ]
  /\ ret' = [ ret EXCEPT ![p] = "acquire_raised" ]
  /\ polls' = [ polls EXCEPT ![p] = 0 ]
  /\ UNCHANGED << files, clock, runs, ev, prv, nxt, last, validation >>

\* acquire 132-133: FileExistsError, sleep one poll interval
Wait(p) ==
  /\ pc[p] = "acquire"
  /\ ~ deadline_passed(polls[p])
  /\ ~ mkdir_succeeds(lock[IdOf(p)])
  /\ polls' = [ polls EXCEPT ![p] = after_sleep(@) ]
  /\ UNCHANGED << files, lock, clock, runs, pc, ev, prv, nxt, ret, last, validation >>

\* acquire 134 and main 330-331: the deadline passed, acquire returns False, main returns
GiveUp(p) ==
  /\ pc[p] = "acquire"
  /\ deadline_passed(polls[p])
  /\ pc' = [ pc EXCEPT ![p] = skip_target ]
  /\ ret' = [ ret EXCEPT ![p] = "contended" ]
  /\ polls' = [ polls EXCEPT ![p] = 0 ]
  /\ UNCHANGED << files, lock, clock, runs, ev, prv, nxt, last, validation >>

\* main 334-344: load, compute, compare the hashes
LoadCompute(p) ==
  /\ pc[p] = "load"
  /\ is_dict(loaded(IdOf(p)))
  /\ \E now \in Now :
       LET prev == loaded(IdOf(p))
           out == compute_state(ev[p][1], prev, now)
       IN  /\ clock' = now
           /\ prv' = [ prv EXCEPT ![p] = prev ]
           /\ nxt' = [ nxt EXCEPT ![p] = << out >> ]
           /\ IF must_write(prev, out)
              THEN /\ pc' = [ pc EXCEPT ![p] = "snapshot" ]
                   /\ ret' = ret
              ELSE /\ pc' = [ pc EXCEPT ![p] = "release" ]
                   /\ ret' = [ ret EXCEPT ![p] = "same_hash" ]
  /\ UNCHANGED << files, lock, runs, ev, polls, last, validation >>

\* main 347-348: copy state.json to state.prev.json if it exists
Snapshot(p) ==
  /\ pc[p] = "snapshot"
  /\ ~ snapshot_raises(state_json[IdOf(p)])
  /\ prev_json' = [ prev_json EXCEPT ![IdOf(p)] = snapshot_of(IdOf(p)) ]
  /\ pc' = [ pc EXCEPT ![p] = "write_state" ]
  /\ UNCHANGED << state_json, status_md, lock, clock, runs, ev, prv, nxt, polls, ret, last, validation >>

\* main 350
WriteState(p) ==
  /\ pc[p] = "write_state"
  /\ state_json' = [ state_json EXCEPT ![IdOf(p)] = nxt[p] ]
  /\ pc' = [ pc EXCEPT ![p] = "write_status" ]
  /\ UNCHANGED << prev_json, status_md, lock, clock, runs, ev, prv, nxt, polls, ret, last, validation >>

\* main 351
WriteStatus(p) ==
  /\ pc[p] = "write_status"
  /\ status_md' = [ status_md EXCEPT ![IdOf(p)] = << render_status(nxt[p][1]) >> ]
  /\ pc' = [ pc EXCEPT ![p] = "release" ]
  /\ ret' = [ ret EXCEPT ![p] = "written" ]
  /\ UNCHANGED << state_json, prev_json, lock, clock, runs, ev, prv, nxt, polls, last, validation >>

\* main 333-353: a statement of the try block raises (it must where LoadCompute or
\* Snapshot cannot go on); control goes to finally
Raise(p) ==
  /\ pc[p] \in {"load", "snapshot", "write_state", "write_status"}
  /\ pc' = [ pc EXCEPT ![p] = "release" ]
  /\ ret' = [ ret EXCEPT ![p] = "raised" ]
  /\ UNCHANGED << files, lock, clock, runs, ev, prv, nxt, polls, last, validation >>

\* main 353-354 and release 136-138; the locals of the run end with it
Release(p) ==
  /\ pc[p] = "release"
  /\ lock' = [ lock EXCEPT ![IdOf(p)] = released(@) ]
  /\ pc' = [ pc EXCEPT ![p] = "idle" ]
  /\ prv' = [ prv EXCEPT ![p] = None ]
  /\ nxt' = [ nxt EXCEPT ![p] = None ]
  /\ polls' = [ polls EXCEPT ![p] = 0 ]
  /\ UNCHANGED << files, clock, runs, ev, ret, last, validation >>

Step(p) ==
  \/ Raise(p)
  \/ Release(p)
  \/ Acquire(p)
  \/ AcquireRaises(p)
  \/ Wait(p)
  \/ GiveUp(p)
  \/ LoadCompute(p)
  \/ Snapshot(p)
  \/ WriteState(p)
  \/ WriteStatus(p)

Next ==
  \E p \in Procs :
    \/ \E event \in RaceEvents : Start(p, event)
    \/ Step(p)

Spec == Init /\ [][Next]_vars

\* concurrent runs for one engagement
SameIssueEvents == { e \in RaceEvents : extract_ctx(e).number = 1 }

SameIssueNext ==
  \E p \in Procs :
    \/ \E event \in SameIssueEvents : Start(p, event)
    \/ Step(p)

\* every run that has started keeps being scheduled until main returns
FairSpec == Init /\ [][SameIssueNext]_vars /\ \A p \in Procs : WF_vars(Step(p))

(***************************************************************************)
(* Properties                                                              *)
(***************************************************************************)
Rank(file) == state_rank(prev_state_of(file))

L == last[1]

LastInScope == last # None /\ in_scope(L.ctx)

\* the three factors of the payment verification, read off the event
FactorIntent(ctx) == Intents(ctx).verify
FactorTrust(ctx) == is_authorized_assoc(ctx.assoc)
FactorLabel(ctx) == LABEL_VERIFY_PAYMENT \in ctx.labels
AllFactors(ctx) == FactorIntent(ctx) /\ FactorTrust(ctx) /\ FactorLabel(ctx)

\* C1 Monotonicity: over every run of the engine for an engagement, the rank
\* of the state in state.json after the run is at least the rank before it
\* (a missing record counts as "new"), and a record never disappears.
C1_Monotonic ==
  [][ \A i \in Ids :
        /\ Rank(state_json'[i]) >= Rank(state_json[i])
        /\ state_json[i] # None => state_json'[i] # None ]_vars

\* a run whose event observed less than the stored state, and the state stayed
C1_Witness ==
  /\ LastInScope
  /\ L.prev # None
  /\ L.ret = "written"
  /\ state_rank(observed_state(facts(L.ctx), L.prev[1].state)) < Rank(L.prev)
  /\ Rank(L.prev) >= state_rank("deliverables_ready")
  /\ state_json[L.ctx.number][1].state = L.prev[1].state

\* C2 Lock mutual exclusion: for every engagement, at most one run at a time
\* is between a successful acquire() and the end of its release().
InSection(i) == { p \in Procs : pc[p] \in Section /\ IdOf(p) = i }

C2_MutualExclusion == \A i \in Ids : Cardinality(InSection(i)) <= 1

\* one run is in the section while another one polls for the same lock
C2_Witness ==
  \E p, q \in Procs :
    /\ pc[p] \in {"snapshot", "write_state", "write_status"}
    /\ pc[q] = "acquire" /\ polls[q] > 0
    /\ IdOf(p) = IdOf(q)

\* C3 Two-factor gate: an in-scope event with at most two of the three
\* factors, applied to a state of rank <= verify_payment, does not leave the
\* record in payment_verified or in a delivery state beyond it.
C3_TwoFactorGate ==
  LastInScope /\ ~ AllFactors(L.ctx) /\ Rank(L.prev) <= state_rank("verify_payment")
    => state_json[L.ctx.number][1].state
         \notin {"payment_verified", "deliverables_ready", "deliverables_pushed"}

\* C4 Idempotent persistence: the second of two consecutive runs for the same
\* event takes the equal-hash return, and state.json is what the first run left.
C4_RepeatWritesNothing ==
  LastInScope /\ L.repeat
    => L.ret = "same_hash" /\ state_json[L.ctx.number] = L.prev

\* C5 Write-once timestamps: a key of the persisted timestamps mapping is
\* there, with the same value, after every later run.
C5_WriteOnce ==
  [][ \A i \in Ids :
        state_json[i] # None =>
          /\ state_json'[i] # None
          /\ \A k \in DOMAIN state_json[i][1].timestamps :
               /\ k \in DOMAIN state_json'[i][1].timestamps
               /\ state_json'[i][1].timestamps[k] = state_json[i][1].timestamps[k] ]_vars

\* a later run at a later time whose event meets the condition of a set key again
C5_Witness ==
  /\ LastInScope
  /\ L.prev # None
  /\ L.ret = "written"
  /\ \E k \in DOMAIN L.prev[1].timestamps :
       /\ k \in MarkedNow(facts(L.ctx))
       /\ L.prev[1].timestamps[k] < L.nxt[1].updated_utc
       /\ state_json[L.ctx.number][1].timestamps[k] = L.prev[1].timestamps[k]

\* C6 Workspace link determinism: in state.json and state.prev.json of every
\* engagement N, private_workspace is set iff the state is deliverables_ready
\* or deliverables_pushed, and then it is <base>/clients/issue-N.
LinkRule(file, i) ==
  file # None =>
    /\ file[1].private_workspace # None
         <=> file[1].state \in {"deliverables_ready", "deliverables_pushed"}
    /\ file[1].private_workspace # None
         => file[1].private_workspace = << WORKSPACE_BASE, "clients", "issue-", i >>

C6_WorkspaceLink == \A i \in Ids : LinkRule(state_json[i], i) /\ LinkRule(prev_json[i], i)

\* a pushed record with its link, after a ready one
C6_Witness ==
  \E i \in Ids :
    /\ state_json[i] # None /\ prev_json[i] # None
    /\ state_json[i][1].state = "deliverables_pushed"
    /\ prev_json[i][1].state = "deliverables_ready"
    /\ state_json[i][1].private_workspace # None

\* C7 Writes under the lock: a step that changes state.json, state.prev.json
\* or STATUS.md of an engagement is a step of the run that made the lock
\* marker of that engagement, and the marker is there before and after.
Written(i) ==
  \/ state_json'[i] # state_json[i]
  \/ prev_json'[i] # prev_json[i]
  \/ status_md'[i] # status_md[i]

C7_WritesUnderLock ==
  [][ \A i \in Ids :
        Written(i) =>
          \E p \in Procs :
            /\ pc'[p] # pc[p]
            /\ lock[i] # None /\ lock[i][1].has_json /\ lock[i][1].owner = p
            /\ lock'[i] = lock[i] ]_vars

\* the three files written, the marker still in place
C7_Witness ==
  \E p \in Procs :
    /\ pc[p] = "release" /\ ret[p] = "written"
    /\ lock[IdOf(p)] # None /\ lock[IdOf(p)][1].owner = p
    /\ state_json[IdOf(p)] = nxt[p]
    /\ prev_json[IdOf(p)] = prv[p] /\ prv[p] # None

\* C8 Guaranteed release: a marker with its lock.json is there only while
\* the run that acquired it is inside the section; whichever way the run
\* leaves the section, the marker is gone when the run has ended.
C8_ReleasedAtExit ==
  \A i \in Ids :
    lock[i] # None /\ lock[i][1].has_json =>
      pc[lock[i][1].owner] \in Section /\ IdOf(lock[i][1].owner) = i

\* runs ended on each of the three paths, their locks free
C8_Witness ==
  /\ \E p \in Procs : pc[p] = "idle" /\ ret[p] = "raised" /\ lock[IdOf(p)] = None
  /\ \E p \in Procs : pc[p] = "idle" /\ ret[p] \in {"written", "same_hash"}
                        /\ lock[IdOf(p)] = None

\* C9 Contention skip: when acquire() returns False the run ends normally,
\* and the three files and the marker of the other run are what they were.
ExitCode(r) == IF r \in {"raised", "acquire_raised"} THEN 1 ELSE 0

C9_ContentionSkip ==
  [][ \A p \in Procs :
        pc[p] = "acquire" /\ deadline_passed(polls[p]) /\ pc'[p] # pc[p] =>
          /\ pc'[p] = "idle"
          /\ ExitCode(ret'[p]) = 0
          /\ files' = files
          /\ lock' = lock ]_vars

\* a run that gave up while the other run still holds the lock
C9_Witness ==
  \E p, q \in Procs :
    /\ pc[p] = "idle" /\ ret[p] = "contended"
    /\ pc[q] \in Section /\ IdOf(q) = IdOf(p)
    /\ lock[IdOf(p)] # None /\ lock[IdOf(p)][1].owner = q

\* C10 Bounded wait: every run that has started ends, also when the marker
\* it waits for is never removed.
C10_RunsEnd == \A p \in Procs : (pc[p] # "idle") ~> (pc[p] = "idle")

\* a run that timed out on a marker nobody will remove
C10_Witness ==
  \E p \in Procs :
    /\ pc[p] = "idle" /\ ret[p] = "contended"
    /\ lock[IdOf(p)] # None /\ ~ lock[IdOf(p)][1].has_json
    /\ \A q \in Procs : pc[q] = "idle"

\* C11 Out-of-scope events are no-ops: a run whose event lacks the stegops
\* label or has an id absent or <= 0 ends at once without error, its start
\* changes no file and no lock marker, and it never reaches acquire().
OutOfScope(ctx) == LABEL_STEGOPS \notin ctx.labels \/ ctx.number <= 0

C11_OutOfScopeNoOp ==
  [][ \A p \in Procs :
        (IF ev'[p] = None THEN FALSE ELSE OutOfScope(ev'[p][1])) =>
          /\ pc'[p] = "idle"
          /\ ret'[p] = "noop"
          /\ ev[p] = None => files' = files /\ lock' = lock ]_vars

\* a run for an event without the label and a run for an event without an id,
\* both ended, and no file or marker exists
C11_Witness ==
  /\ \E p \in Procs : pc[p] = "idle" /\ ret[p] = "noop" /\ ev[p] # None
                        /\ LABEL_STEGOPS \notin ev[p][1].labels
  /\ \E p \in Procs : pc[p] = "idle" /\ ret[p] = "noop" /\ ev[p] # None
                        /\ LABEL_STEGOPS \in ev[p][1].labels /\ ev[p][1].number = 0
  /\ \A i \in Ids : lock[i] = None /\ state_json[i] = None

\* the stored state.json exists but is not a state record
Unparsable(file) == IF file = None THEN FALSE ELSE ~ is_record(file)

\* C12 Fail-open load: a run for an in-scope event that finds a state.json
\* which is not a state record does not fail, and writes to state.json the
\* record it would write for that event if there were no state.json.
C12_FailOpenLoad ==
  [][ \A i \in Ids :
        Unparsable(state_json[i]) /\ in_scope(last'[1].ctx) /\ last'[1].ctx.number = i =>
          /\ last'[1].ret = "written"
          /\ state_json'[i] = << compute_state(last'[1].ctx, None, clock') >> ]_vars

\* the last run was for an in-scope event and ended without an exception
LastRan == LastInScope /\ L.ret \in {"written", "same_hash"}

\* the record in state.json after the last run
Result == state_json[L.ctx.number][1]

\* the event of the last run carries nothing that observes more than qualified
ObservesAtMostQualified(ctx) ==
  /\ ctx.labels \cap {LABEL_SOW, LABEL_INVOICE, LABEL_PAYMENT_CLAIMED,
                      LABEL_DELIVERABLES_PUSHED} = {}
  /\ ~ Intents(ctx).accept /\ ~ Intents(ctx).paid /\ ~ AllFactors(ctx)

\* C13 Closing outcome: a closed event on a previous state of rank <=
\* qualified, itself observing nothing above qualified, results in
\* closed_no_response; a closed event on a previous state from accepted to
\* deliverables_pushed results in closed.
C13_ClosingOutcome ==
  LastRan /\ lower(L.ctx.state) = "closed" =>
    /\ Rank(L.prev) <= state_rank("qualified") /\ ObservesAtMostQualified(L.ctx)
         => Result.state = "closed_no_response"
    /\ Rank(L.prev) \in state_rank("accepted")..state_rank("deliverables_pushed")
         => Result.state = "closed"

\* a closed event that itself observes nothing, on a record in accepted
C13_Witness ==
  /\ LastRan /\ L.ret = "written"
  /\ lower(L.ctx.state) = "closed" /\ ObservesAtMostQualified(L.ctx)
  /\ L.prev # None /\ Rank(L.prev) = state_rank("accepted")
  /\ Result.state = "closed"

\* C14 Authorized verification: an open event with verify-payment intent, a
\* commenter who is OWNER, MEMBER or COLLABORATOR, the verify-payment label
\* and no deliverables-pushed label, on a previous state of rank below
\* deliverables_ready, results in exactly deliverables_ready, with
\* private_workspace set to the URL of that engagement.
C14_AuthorizedVerification ==
  /\ LastRan
  /\ lower(L.ctx.state) # "closed"
  /\ AllFactors(L.ctx)
  /\ LABEL_DELIVERABLES_PUSHED \notin L.ctx.labels
  /\ Rank(L.prev) < state_rank("deliverables_ready")
  => /\ Result.state = "deliverables_ready"
     /\ Result.private_workspace = << WORKSPACE_BASE, "clients", "issue-", L.ctx.number >>

\* a MEMBER verified the payment of an engagement that waited in verify_payment
C14_Witness ==
  /\ LastRan /\ L.ret = "written"
  /\ lower(L.ctx.state) # "closed" /\ AllFactors(L.ctx)
  /\ upper(L.ctx.assoc[1]) = "MEMBER"
  /\ L.prev # None /\ Rank(L.prev) = state_rank("verify_payment")
  /\ Result.state = "deliverables_ready"
  /\ Result.private_workspace # None

\* the milestone states the rules of this run folded into observed
FoldedMilestones(ctx) ==
  LET f == facts(ctx) IN
  (IF f.comment THEN {"replied"} ELSE {})
  \cup (IF f.qualified THEN {"qualified"} ELSE {})
  \cup (IF f.sow THEN {"sow_generated"} ELSE {})
  \cup (IF f.accept THEN {"accepted"} ELSE {})
  \cup (IF f.invoice THEN {"invoice_generated"} ELSE {})
  \cup (IF f.claimed THEN {"payment_claimed", "verify_payment"} ELSE {})
  \cup (IF f.verified THEN {"payment_verified", "deliverables_ready"} ELSE {})
  \cup (IF f.pushed THEN {"deliverables_pushed"} ELSE {})

\* C15 Milestone timestamps: after a run, timestamps has a key for every
\* milestone state the run folded into observed; a two-factor verification
\* sets both payment_verified and deliverables_ready.
C15_MilestoneTimestamps ==
  LastRan => FoldedMilestones(L.ctx) \subseteq DOMAIN Result.timestamps

\* an open event with a verify-payment comment that lacks the trust factor or
\* the label factor, and carries no label that advances the state
UnauthorizedVerify(ctx) ==
  /\ FactorIntent(ctx)
  /\ ~ FactorTrust(ctx) \/ ~ FactorLabel(ctx)
  /\ lower(ctx.state) # "closed"
  /\ ctx.labels \cap {LABEL_QUALIFIED, LABEL_SOW, LABEL_INVOICE, LABEL_PAYMENT_CLAIMED,
                      LABEL_DELIVERABLES_PUSHED} = {}

\* C16 as stated: after an unauthorized verify-payment comment the persisted
\* state equals the previous state, for every previous state (no record
\* counting as "new").
C16_StateUnchanged ==
  LastRan /\ UnauthorizedVerify(L.ctx) => Result.state = prev_state_of(L.prev)

\* C16 Unauthorized verify does not advance: after an unauthorized
\* verify-payment comment the persisted state equals the previous state when
\* that is replied or later, and is replied when there was no record or the
\* record was in new (the comment counts as a reply).
C16_UnauthorizedVerifyDoesNotAdvance ==
  LastRan /\ UnauthorizedVerify(L.ctx) =>
    Result.state = IF Rank(L.prev) >= state_rank("replied") THEN prev_state_of(L.prev)
                   ELSE "replied"

\* an outsider's verify-payment comment, the label present, on an engagement
\* waiting in verify_payment: it still waits
C16_Witness ==
  /\ LastRan /\ UnauthorizedVerify(L.ctx)
  /\ FactorLabel(L.ctx) /\ ~ FactorTrust(L.ctx)
  /\ L.prev # None /\ Rank(L.prev) = state_rank("verify_payment")
  /\ Result.state = "verify_payment"

\* the same event, its comment replaced by one that carries no intent
WithOrdinaryComment(ctx) == [ ctx EXCEPT !.comment = <<"hello", "there">> ]

\* C17 Unauthorized verify is audited: the record computed by a run whose
\* event has verify-payment intent without the trust factor or without the
\* label factor contains an entry that the record computed for the same
\* event with an ordinary comment does not contain.
C17_UnauthorizedVerifyAudited ==
  LastRan /\ FactorIntent(L.ctx) /\ ~ AllFactors(L.ctx) =>
    L.nxt[1] # compute_state(WithOrdinaryComment(L.ctx), L.prev, clock)

\* C18 Service precedence: the persisted service is monthly or audit; it is
\* the value of the monthly or audit label if the event has one, otherwise
\* the stored service if there is one, otherwise the value inferred from the
\* issue body, otherwise audit.
C18_ServicePrecedence ==
  LastRan =>
    LET labels == L.ctx.labels
        inferred == parse_service_from_issue_body(L.ctx.body)
    IN  /\ Result.service \in {"monthly", "audit"}
        /\ LABEL_MONTHLY \in labels /\ LABEL_AUDIT \notin labels => Result.service = "monthly"
        /\ LABEL_AUDIT \in labels /\ LABEL_MONTHLY \notin labels => Result.service = "audit"
        /\ labels \cap {LABEL_MONTHLY, LABEL_AUDIT} = {} =>
             Result.service = IF L.prev # None THEN L.prev[1].service
                              ELSE IF inferred # None THEN inferred[1]
                              ELSE "audit"

\* a stored monthly engagement, an event without a service label whose body
\* names the audit: the service stays monthly
C18_Witness ==
  /\ LastRan /\ L.ret = "written"
  /\ L.ctx.labels \cap {LABEL_MONTHLY, LABEL_AUDIT} = {}
  /\ parse_service_from_issue_body(L.ctx.body) = <<"audit">>
  /\ L.prev # None /\ L.prev[1].service = "monthly"
  /\ Result.service = "monthly"

\* C19 Customer is set once: a run on a stored record that has a customer
\* leaves the customer as it is, whoever the event names as author.
C19_CustomerSetOnce ==
  LastRan /\ L.prev # None => Result.customer = L.prev[1].customer

Validated == validation # None /\ validation[1].done

\* C21 Validator no-op success: when the engine step skipped the event
\* (stegops label missing, or id absent or <= 0) and there is no output
\* directory for the event, the validator step for that event exits 0.
C21_ValidatorNoOpSuccess ==
  /\ Validated
  /\ L.ret = "noop"
  /\ ~ dir_exists(L.ctx.number)
  => validation[1].exit = 0

\* the lifecycle state held by a file, "none" if it holds no record
StateIn(file) == IF is_record(file) THEN file[1].state ELSE "none"

TimestampsIn(file) == IF is_record(file) THEN file[1].timestamps ELSE EmptyTs

\* C23 Repeat leaves timestamps alone: a run for the same in-scope event as
\* the run just before it leaves the timestamps mapping of the record as the
\* first run left it: no key added, none removed, no value changed.
C23_RepeatKeepsTimestamps ==
  [][ \A i \in Ids :
        last'[1].repeat /\ in_scope(last'[1].ctx) /\ last'[1].ctx.number = i
          => /\ is_record(state_json'[i])
             /\ TimestampsIn(state_json'[i]) = TimestampsIn(state_json[i]) ]_vars

\* the same event again, a second later: the record was rewritten and its
\* milestone still carries the time of the first run
C23_Witness ==
  /\ LastInScope /\ L.repeat /\ L.ret = "written"
  /\ MarkedNow(facts(L.ctx)) # {}
  /\ \A k \in MarkedNow(facts(L.ctx)) :
       k \in DOMAIN Result.timestamps /\ Result.timestamps[k] < Result.updated_utc

\* C24 Affirmative reply qualifies: after a run for an event whose comment
\* has affirmative intent, on any previous record, the state has rank >=
\* qualified and timestamps has the key qualified.
C24_AffirmativeQualifies ==
  LastRan /\ Intents(L.ctx).yes =>
    /\ state_rank(Result.state) >= state_rank("qualified")
    /\ "qualified" \in DOMAIN Result.timestamps

\* "Yes please" on an engagement that was in replied, without the qualified
\* label: now qualified, stamped at this run
C24_Witness ==
  /\ LastRan /\ L.ret = "written"
  /\ Intents(L.ctx).yes /\ LABEL_QUALIFIED \notin L.ctx.labels
  /\ L.prev # None /\ L.prev[1].state = "replied"
  /\ "qualified" \notin DOMAIN L.prev[1].timestamps
  /\ Result.state = "qualified"
  /\ Result.timestamps["qualified"] = Result.updated_utc

\* which closing state the last run folded in, as its reasons tell
FoldedNoResponse == "observed_closed_no_response" \in L.nxt[1].reasons
FoldedClosed == "observed_closed" \in L.nxt[1].reasons

\* C25 as stated: on a closed event closed_no_response is folded in exactly
\* when the rank observed from this event is <= qualified, and closed
\* otherwise, whatever the previous state.
C25_CloseByObservedOnly ==
  LastRan /\ lower(L.ctx.state) = "closed" =>
    /\ FoldedNoResponse <=> ObservesAtMostQualified(L.ctx)
    /\ FoldedClosed <=> ~ ObservesAtMostQualified(L.ctx)

\* C25 Closing rule: on a closed event closed_no_response is folded in
\* exactly when the rank observed from this event and the rank of the
\* previous state are both <= qualified, and closed is folded in otherwise.
C25_CloseByObservedAndPrevious ==
  LastRan /\ lower(L.ctx.state) = "closed" =>
    LET early == ObservesAtMostQualified(L.ctx) /\ Rank(L.prev) <= state_rank("qualified")
    IN  /\ FoldedNoResponse <=> early
        /\ FoldedClosed <=> ~ early

\* a closed event that observes nothing, on a record in sow_generated: closed
\* was folded in, not closed_no_response
C25_Witness ==
  /\ LastRan /\ L.ret = "written"
  /\ lower(L.ctx.state) = "closed" /\ ObservesAtMostQualified(L.ctx)
  /\ L.prev # None /\ L.prev[1].state = "sow_generated"
  /\ FoldedClosed /\ ~ FoldedNoResponse

\* the targets of the rules whose predicate holds for the event
RuleTargets(ctx) ==
  (IF ctx.comment # None THEN {"replied"} ELSE {})
  \cup (IF LABEL_QUALIFIED \in ctx.labels \/ Intents(ctx).yes THEN {"qualified"} ELSE {})
  \cup (IF LABEL_SOW \in ctx.labels THEN {"sow_generated"} ELSE {})
  \cup (IF Intents(ctx).accept THEN {"accepted"} ELSE {})
  \cup (IF LABEL_INVOICE \in ctx.labels THEN {"invoice_generated"} ELSE {})
  \cup (IF LABEL_PAYMENT_CLAIMED \in ctx.labels \/ Intents(ctx).paid
        THEN {"verify_payment"} ELSE {})
  \cup (IF AllFactors(ctx) THEN {"deliverables_ready"} ELSE {})
  \cup (IF LABEL_DELIVERABLES_PUSHED \in ctx.labels THEN {"deliverables_pushed"} ELSE {})

\* the highest-ranked state of a set of lattice states
Highest(S) == CHOOSE t \in S : \A u \in S : STATE_RANK[t] >= STATE_RANK[u]

\* C26 Observed fold: for an open event the state after the run is the
\* highest-ranked of the previous state, new, and the targets of the rules
\* whose predicate holds, a set that knows no evaluation order.
C26_ObservedFold ==
  LastRan /\ lower(L.ctx.state) # "closed" /\ prev_state_of(L.prev) \in States =>
    Result.state = Highest({prev_state_of(L.prev), "new"} \cup RuleTargets(L.ctx))

\* an accept comment on an event with the qualified label, on a record in
\* replied: three rules hold, the highest target is the state
C26_Witness ==
  /\ LastRan /\ L.ret = "written"
  /\ lower(L.ctx.state) # "closed"
  /\ RuleTargets(L.ctx) = {"replied", "qualified", "accepted"}
  /\ L.prev # None /\ L.prev[1].state = "replied"
  /\ Result.state = "accepted"

\* C27 Two-factor step in isolation: for an open event without the
\* deliverables-pushed label, on a previous state of rank <= verify_payment,
\* the state after the run ranks above verify_payment exactly when the event
\* has all three factors; with a factor missing the run records no
\* verification reason.
C27_TwoFactorStep ==
  /\ LastRan
  /\ lower(L.ctx.state) # "closed"
  /\ LABEL_DELIVERABLES_PUSHED \notin L.ctx.labels
  /\ Rank(L.prev) <= state_rank("verify_payment")
  => /\ state_rank(Result.state) > state_rank("verify_payment") <=> AllFactors(L.ctx)
     /\ ~ AllFactors(L.ctx) => "observed_payment_verified_two_factor" \notin L.nxt[1].reasons

\* an OWNER's verify-payment comment on an event without the verify-payment
\* label, on an engagement waiting in verify_payment: it still waits
C27_Witness ==
  /\ LastRan /\ L.ret = "written"
  /\ lower(L.ctx.state) # "closed"
  /\ FactorIntent(L.ctx) /\ FactorTrust(L.ctx) /\ ~ FactorLabel(L.ctx)
  /\ L.prev # None /\ L.prev[1].state = "verify_payment"
  /\ Result.state = "verify_payment"

\* C28 compute_state leaves its input alone: the previous record, as main
\* holds it after compute_state returned, equals the record as loaded, its
\* timestamps and pricing_defaults included, and so do their hashes.
C28_PreviousUntouched ==
  LastRan /\ L.prev # None =>
    /\ prev_after_compute(L.prev, L.nxt[1]) = L.prev
    /\ canonical_hash(prev_after_compute(L.prev, L.nxt[1])[1]) = canonical_hash(L.prev[1])

\* the record the last run loaded differs from the record it computed
Differs == IF L.prev = None THEN TRUE ELSE L.nxt[1] # L.prev[1]

\* C29 Write exactly on change: a run that held the lock and computed a
\* record wrote state.json and STATUS.md if that record differs in some
\* field from the record it loaded, and wrote nothing if it does not.
C29_WriteExactlyOnChange ==
  LastInScope /\ L.nxt # None =>
    /\ Differs => /\ L.ret = "written"
                  /\ state_json[L.ctx.number] = L.nxt
                  /\ status_md[L.ctx.number] = << render_status(L.nxt[1]) >>
    /\ ~ Differs => L.ret = "same_hash"

\* C30 Skipped events are re-derived: when the run for an event E1 gave up
\* on the lock and the run for the next event E2 of the same engagement was
\* processed (here as the first write for the engagement), the persisted
\* state is the one that processing E1 and then E2 would have produced.
C30_SkippedRederived ==
  \A p, q \in Procs :
    /\ p < q
    /\ pc[p] = "idle" /\ ret[p] = "contended"
    /\ pc[q] = "idle" /\ ret[q] = "written"
    /\ IdOf(p) = IdOf(q)
    /\ prev_json[IdOf(q)] = None
    => state_json[IdOf(q)][1].state
         = compute_state(ev[q][1], << compute_state(ev[p][1], None, 0) >>, 0).state

\* the event claims a payment: the payment-claimed label or a paid comment
ClaimsPayment(ctx) == LABEL_PAYMENT_CLAIMED \in ctx.labels \/ Intents(ctx).paid

\* C31 Payment claim opens verification: a run for an event that claims a
\* payment leaves a state of rank >= verify_payment, and no record ever holds
\* payment_claimed or payment_verified as its state.
C31_ClaimOpensVerification ==
  /\ LastRan /\ ClaimsPayment(L.ctx)
       => state_rank(Result.state) >= state_rank("verify_payment")
  /\ \A i \in Ids : StateIn(state_json[i]) \notin {"payment_claimed", "payment_verified"}

\* a "Paid" comment on an engagement that was in qualified: verify_payment
C31_Witness ==
  /\ LastRan /\ L.ret = "written"
  /\ Intents(L.ctx).paid /\ LABEL_PAYMENT_CLAIMED \notin L.ctx.labels
  /\ L.prev # None /\ L.prev[1].state = "qualified"
  /\ Result.state = "verify_payment"

\* the record the last run loaded holds a state outside the lattice
PrevOutside == IF is_record(L.prev) THEN L.prev[1].state \notin States ELSE FALSE

\* C32 State stays in the lattice: a run on no record or on a record with a
\* lattice state persists a lattice state; a run on a record whose state is
\* outside the lattice does not raise, and replaces that state exactly when
\* the event observes a milestone above new (or closes the issue).
C32_StateInLattice ==
  LastInScope =>
    /\ L.ret # "raised" /\ ~ PrevOutside => Result.state \in States
    /\ PrevOutside =>
         /\ L.ret # "raised"
         /\ IF RuleTargets(L.ctx) # {} \/ lower(L.ctx.state) = "closed"
            THEN Result.state \in States \ {"new"}
            ELSE Result.state = L.prev[1].state

\* a comment on a record in the unknown state "archived": now replied
C32_Witness ==
  /\ LastRan /\ L.ret = "written"
  /\ PrevOutside
  /\ RuleTargets(L.ctx) = {"replied"} /\ lower(L.ctx.state) # "closed"
  /\ Result.state = "replied"

\* C33 Engagements are independent: a step of a run for one engagement changes
\* the files and the marker of that engagement only; a run sleeps at acquire()
\* only while the marker of its own engagement is there, and it gives up only
\* after a full timeout of such sleeps.
EventNumber(p) == ev[p][1].number

Touched(i) ==
  \/ state_json'[i] # state_json[i]
  \/ prev_json'[i] # prev_json[i]
  \/ status_md'[i] # status_md[i]
  \/ lock'[i] # lock[i]

C33_Independent ==
  [][ /\ \A i \in Ids :
           Touched(i) => \E p \in Procs : /\ pc'[p] # pc[p]
                                          /\ ev[p] # None
                                          /\ EventNumber(p) = i
      /\ \A p \in Procs :
           /\ pc[p] = "acquire" /\ polls'[p] > polls[p] => lock[EventNumber(p)] # None
           /\ pc[p] = "acquire" /\ ret'[p] = "contended" => polls[p] >= PollsPerTimeout ]_vars

\* two runs at once between acquire() and release(), one for each engagement,
\* and the later one has written its record
C33_Witness ==
  \E p, q \in Procs :
    /\ pc[p] \in Section /\ pc[q] = "release" /\ ret[q] = "written"
    /\ EventNumber(p) # EventNumber(q)
    /\ state_json[EventNumber(q)] # None
    /\ lock[EventNumber(p)] # None /\ lock[EventNumber(p)][1].owner = p

\* C34 Verified records keep the label: every record in state.json whose state
\* is payment_verified, deliverables_ready or deliverables_pushed has
\* verify-payment in its labels snapshot, after every sequence of events.
C34_VerifiedKeepsLabel ==
  \A i \in Ids :
    StateIn(state_json[i]) \in {"payment_verified", "deliverables_ready", "deliverables_pushed"}
      => LABEL_VERIFY_PAYMENT \in state_json[i][1].labels

\* C35 Serializable updates: every change of state.json is made by the run that
\* holds the lock of the engagement, and the record written is compute_state of
\* that run's event and the record the file held just before the write; the
\* final record is the events applied one after another in the order of the
\* acquisitions, and no run overwrites a record it has not read.
C35_Serializable ==
  [][ \A i \in Ids :
        state_json'[i] # state_json[i] =>
          \E p \in Procs :
            /\ pc[p] = "write_state" /\ pc'[p] = "write_status"
            /\ EventNumber(p) = i
            /\ lock[i] # None /\ lock[i][1].owner = p
            /\ \E now \in 0..MaxClock :
                 state_json'[i] = << compute_state(ev[p][1], safe_read_json(state_json[i]), now) >>
    ]_vars

\* a run that waited for the lock while another run for the same engagement
\* wrote, and then wrote a record built on that one
C35_Witness ==
  \E p, q \in Procs :
    /\ p # q /\ ev[p] # None /\ ev[q] # None
    /\ EventNumber(p) = EventNumber(q)
    /\ pc[p] = "idle" /\ ret[p] = "written"
    /\ pc[q] = "release" /\ ret[q] = "written" /\ polls[q] > 0
    /\ prv[q] # None
    /\ state_json[EventNumber(q)] = nxt[q]
    /\ state_json[EventNumber(q)] # prv[q]

\* the second event of a pair: every label set, an open or a closed issue, no
\* comment or one with an intent that no label stands for
PairEvents ==
  { RawEvent(<<1>>, ls, c, st, <<"alice">>, <<>>) :
      ls \in UnitLabelSets,
      c \in { None, Comment(<<"accept">>, Outsider), Comment(<<"verify", "payment">>, Owner) },
      st \in { None, <<"closed">> } }

\* the state after the run for ctx1 and then the run for ctx2, from the record prev
StateAfter(prev, ctx1, ctx2) ==
  compute_state(ctx2, << compute_state(ctx1, prev, 0) >>, 0).state

IsOpen(ctx) == lower(ctx.state) # "closed"

\* C36 (as stated) Order independence: for every starting record and every two
\* in-scope events of one engagement, open or closed, the state after the
\* first and then the second equals the state after the second and then the first.
C36_OrderIndependent ==
  LastRan =>
    /\ Result.state = compute_state(L.ctx, L.prev, 0).state
    /\ \A e2 \in PairEvents :
         StateAfter(L.prev, L.ctx, extract_ctx(e2)) = StateAfter(L.prev, extract_ctx(e2), L.ctx)

\* C36 (amended) Order independence of open events: for every starting record
\* and every two in-scope events of one engagement whose issue is open, the
\* state after the first and then the second equals the state after the second
\* and then the first.
C36_OpenOrderIndependent ==
  LastRan /\ IsOpen(L.ctx) =>
    /\ Result.state = compute_state(L.ctx, L.prev, 0).state
    /\ \A e2 \in PairEvents :
         IsOpen(extract_ctx(e2)) =>
           StateAfter(L.prev, L.ctx, extract_ctx(e2)) = StateAfter(L.prev, extract_ctx(e2), L.ctx)

\* a run for an open event that moved the stored state, and an open second
\* event that moves it further
C36_Witness ==
  /\ LastRan /\ IsOpen(L.ctx) /\ L.ret = "written"
  /\ L.prev # None
  /\ Result.state # L.prev[1].state
  /\ \E e2 \in PairEvents :
       /\ IsOpen(extract_ctx(e2))
       /\ StateAfter(L.prev, L.ctx, extract_ctx(e2)) # Result.state
       /\ compute_state(extract_ctx(e2), L.prev, 0).state # L.prev[1].state

\* C37 The regression check never trips on what the engine writes: after every
\* sequence of runs from no record, where state.json and state.prev.json both
\* exist, both parse as records, the rank of the state in state.json is at
\* least that of the state in state.prev.json, and validate_no_regression returns.
C37_NoRegressionTrip ==
  \A i \in Ids :
    state_json[i] # None /\ prev_json[i] # None =>
      /\ load_json(state_json[i]) # None /\ is_record(state_json[i])
      /\ load_json(prev_json[i]) # None /\ is_record(prev_json[i])
      /\ state_json[i][1].state \in States /\ prev_json[i][1].state \in States
      /\ STATE_RANK[state_json[i][1].state] >= STATE_RANK[prev_json[i][1].state]
      /\ validate_no_regression(i, state_json[i][1])

\* a second write for one engagement: the snapshot holds the record of the
\* first write, and the event of the second observed less than that record holds
C37_Witness ==
  /\ LastRan /\ L.ret = "written" /\ L.prev # None
  /\ prev_json[L.ctx.number] = L.prev
  /\ state_json[L.ctx.number] # prev_json[L.ctx.number]
  /\ state_rank(observed_state(facts(L.ctx), L.prev[1].state)) < Rank(L.prev)

\* C38 The status document matches the record: where state.json exists and the
\* lock of the engagement is not held, STATUS.md exists and holds the state of
\* state.json and the id of the engagement; and a reader that takes no lock
\* finds the two files in agreement at every moment.
C38_StatusMatchesRecord ==
  \A i \in Ids :
    state_json[i] # None =>
      /\ lock[i] = None => validate_status_md(i, i, state_json[i][1].state)
      /\ validate_status_md(i, i, state_json[i][1].state)

\* a marker whose run has ended without release()
Stale(i) == lock[i] # None /\ pc[lock[i][1].owner] \notin Section

WaitsFor(p, i) == pc[p] = "acquire" /\ ev[p] # None /\ EventNumber(p) = i

\* C39 No stale-lock recovery: a marker left by a run that ended without
\* release() stays as it is, the three files of the engagement never change
\* again, a later run for the engagement leaves acquire() only by giving up,
\* and every such run does give up.
C39_StaleMarkerStays ==
  /\ [][ \A i \in Ids :
           Stale(i) =>
             /\ lock'[i] = lock[i]
             /\ state_json'[i] = state_json[i]
             /\ prev_json'[i] = prev_json[i]
             /\ status_md'[i] = status_md[i]
             /\ \A p \in Procs :
                  WaitsFor(p, i) /\ pc'[p] # pc[p] => pc'[p] = "idle" /\ ret'[p] = "contended"
       ]_vars
  /\ \A i \in Ids : \A p \in Procs :
       (Stale(i) /\ WaitsFor(p, i)) ~> (Stale(i) /\ pc[p] = "idle" /\ ret[p] = "contended")

\* the write of lock.json failed in one run, and a later run for the same
\* engagement has timed out on the marker that run left
C39_Witness ==
  \E i \in Ids : \E q \in Procs :
    /\ Stale(i) /\ ~ lock[i][1].has_json
    /\ ret[lock[i][1].owner] = "acquire_raised"
    /\ q > lock[i][1].owner
    /\ pc[q] = "idle" /\ ret[q] = "contended" /\ EventNumber(q) = i

====
